---- MODULE Spec2Model ----
(***************************************************************************)
(* Model of the mongo-mcp gateway: the configuration snapshot read from    *)
(* the environment (config.py), the tool wrappers, the signal handler and  *)
(* start_server (server.py), and the connection manager and tool bodies    *)
(* the wrappers import from mongo_mcp.db and mongo_mcp.tools.              *)
(***************************************************************************)
EXTENDS Integers, Sequences, FiniteSets, TLC

\* ------------------------------------------------------------------ bounds
\* Number of tool calls the transport dispatches (all may be in flight at once).
MaxOps == 2
\* Number of termination signals delivered to the process.
MaxSignals == 2
\* Number of times the environment is changed after start-up.
MaxEnvChanges == 1

\* ------------------------------------------------------------ config.py
\* Strings whose characters matter are sequences of characters.
STrue == <<"t", "r", "u", "e">>
SFalse == <<"f", "a", "l", "s", "e">>

\* str.lower() on one character (the letters the model's strings use).
LowerChar(c) ==
    CASE c = "T" -> "t" [] c = "R" -> "r" [] c = "U" -> "u" [] c = "E" -> "e"
      [] c = "F" -> "f" [] c = "A" -> "a" [] c = "L" -> "l" [] c = "S" -> "s"
      [] c = "Y" -> "y"
      [] OTHER -> c

\* str.lower()
Lower(s) == [i \in DOMAIN s |-> LowerChar(s[i])]

FlagNames == {"dangerous", "admin", "index"}

\* An environment variable is unset, or set to a string.
Unset == [set |-> FALSE, val |-> <<>>]
SetTo(s) == [set |-> TRUE, val |-> s]

\* Values an ENABLE_* variable is given in the checked configurations.
EnvValues ==
    { Unset, SetTo(STrue), SetTo(<<"T", "R", "U", "E">>), SetTo(SFalse), SetTo(<<"1">>) }

\* Variant of FlagDefault with the defaults inverted.
FlagDefaultBug(name) == IF name = "dangerous" THEN STrue ELSE SFalse

\* The default of each flag's os.environ.get: "false", "true", "true".
FlagDefault(name) == IF name = "dangerous" THEN SFalse ELSE STrue

\* os.environ.get(name, default)
environ_get(e, name, default) == IF e[name].set THEN e[name].val ELSE default

\* ENABLE_X = os.environ.get("ENABLE_X", default).lower() == "true"
ReadFlag(e, name) == Lower(environ_get(e, name, FlagDefault(name))) = STrue

\* The three module-level flags, evaluated once when config.py is imported.
ReadFlags(e) == [n \in FlagNames |-> ReadFlag(e, n)]

\* Variant of MaxDocumentsDefault with another default.
MaxDocumentsDefaultBug == <<"1", "0", "0">>

\* The default of MONGODB_MAX_DOCUMENTS_LIMIT's os.environ.get: "1000".
MaxDocumentsDefault == <<"1", "0", "0", "0">>

\* Values MONGODB_MAX_DOCUMENTS_LIMIT is given in the checked configurations.
MaxDocumentsValues ==
    { Unset, SetTo(<<"5">>), SetTo(<<" ", "2", "0", "0", "0">>), SetTo(<<"+", "7">>),
      SetTo(<<"1", "e", "3">>) }

Digits == {"0", "1", "2", "3", "4", "5", "6", "7", "8", "9"}
DigitValue(c) ==
    CASE c = "0" -> 0 [] c = "1" -> 1 [] c = "2" -> 2 [] c = "3" -> 3 [] c = "4" -> 4
      [] c = "5" -> 5 [] c = "6" -> 6 [] c = "7" -> 7 [] c = "8" -> 8 [] c = "9" -> 9

\* str.strip() of spaces, as int() applies it to its argument.
RECURSIVE Strip(_)
Strip(s) ==
    IF s = <<>> THEN s
    ELSE IF s[1] = " " THEN Strip(Tail(s))
    ELSE IF s[Len(s)] = " " THEN Strip(SubSeq(s, 1, Len(s) - 1))
    ELSE s

\* The number a string of decimal digits denotes.
RECURSIVE DigitsValue(_)
DigitsValue(s) ==
    IF s = <<>> THEN 0
    ELSE 10 * DigitsValue(SubSeq(s, 1, Len(s) - 1)) + DigitValue(s[Len(s)])

\* int(s): the value of an optionally signed decimal string with spaces around
\* it; any other string raises ValueError (ok = FALSE).
int(s) ==
    LET t == Strip(s)
        signed == t # <<>> /\ t[1] \in {"+", "-"}
        body == IF signed THEN Tail(t) ELSE t
    IN IF body = <<>> \/ \E i \in DOMAIN body : body[i] \notin Digits
       THEN [ok |-> FALSE, val |-> 0]
       ELSE [ok |-> TRUE,
             val |-> IF signed /\ t[1] = "-" THEN 0 - DigitsValue(body)
                     ELSE DigitsValue(body)]

\* MONGODB_MAX_DOCUMENTS_LIMIT = int(os.environ.get(..., "1000")), evaluated
\* once when config.py is imported, under the variable's setting d.
ReadMaxDocuments(d) == int(IF d.set THEN d.val ELSE MaxDocumentsDefault)

\* The defaults of MCP_HOST's and MCP_PORT's os.environ.get.
HostDefault == "0.0.0.0"
PortDefault == <<"8", "0", "0", "0">>

\* Values MCP_HOST and MCP_PORT are given in the checked configurations.
HostValues == { Unset, SetTo("127.0.0.1") }
PortValues == { Unset, SetTo(<<"9", "0", "0", "1">>), SetTo(<<"8", "0", "8", "0", " ">>) }

\* MCP_HOST = os.environ.get("MCP_HOST", "0.0.0.0")
ReadHost(hs) == IF hs.set THEN hs.val ELSE HostDefault

\* MCP_PORT = int(os.environ.get("MCP_PORT", "8000"))
ReadPort(ps) == int(IF ps.set THEN ps.val ELSE PortDefault).val

\* MCP_TRANSPORT values of the checked configurations ("sse" is the default).
TransportSettings == {"sse", "streamable-http", "stdio", "http"}
DefaultTransport == "sse"

VARIABLES
    env,          \* the process environment (the ENABLE_* variables)
    flags,        \* ENABLE_DANGEROUS/ADMIN/INDEX_OPERATIONS as imported
    envChanges,   \* environment changes made after start-up
    MCP_TRANSPORT,\* the transport setting as imported
    mainpc,       \* position of the main thread
    transport,    \* the transport app.run was started with ("none" before)
    exitCode,     \* status passed to sys.exit (-1 while running)
    signals,      \* termination signals delivered so far
    mgr,          \* the connection manager: handle, state, counters
    closeCalls,   \* calls of close_connection() so far
    afterFirstClose, \* the manager as the first close_connection() left it
    ops,          \* the tool calls, by dispatch slot
    registered,   \* the tools registered with the FastMCP app
    reported,     \* the number of tools the start-up log reports
    lookup,       \* the last lookup of a tool by name through the transport
    maxDocsEnv,   \* the environment's MONGODB_MAX_DOCUMENTS_LIMIT
    MONGODB_MAX_DOCUMENTS_LIMIT, \* the maximum document limit as imported
    found,        \* the last find-documents call and the documents it returned
    value,        \* a native value handed to the value codec
    encoded,      \* its transport form, once encoded
    decoded,      \* the native value decoded from the transport form
    codecpc,      \* position of the codec run: "native", "encoded", "decoded"
    MCP_HOST,     \* the host setting as imported
    MCP_PORT,     \* the port setting as imported
    appRun        \* the calls of app.run so far, each by its arguments

vars == << env, flags, envChanges, MCP_TRANSPORT, mainpc, transport, exitCode,
           signals, mgr, closeCalls, afterFirstClose, ops,
           registered, reported, lookup,
           maxDocsEnv, MONGODB_MAX_DOCUMENTS_LIMIT, found,
           value, encoded, decoded, codecpc, MCP_HOST, MCP_PORT, appRun >>

\* Set when server.py is imported, or by steps of their own.
findVars == << maxDocsEnv, MONGODB_MAX_DOCUMENTS_LIMIT, found >>
codecVars == << value, encoded, decoded, codecpc >>
bindVars == << MCP_HOST, MCP_PORT >>
auxVars == << registered, reported, lookup, findVars, codecVars, bindVars >>
configVars == << env, flags, envChanges, MCP_TRANSPORT, auxVars >>
mainVars == << mainpc, transport, exitCode, signals, appRun >>
mgrVars == << mgr, closeCalls, afterFirstClose >>


\* ------------------------------------------------- server.py: the wrappers
\* The wrappers of server.py by the arguments their signatures require:
\* no database name, a database name, a database and a collection name.
NoArgTools ==
    { "mcp_list_databases", "mcp_get_server_status", "mcp_get_replica_set_status",
      "mcp_ping_database", "mcp_test_mongodb_connection", "mcp_get_connection_details" }
DbTools ==
    { "mcp_list_collections", "mcp_create_database", "mcp_drop_database",
      "mcp_get_database_stats", "mcp_rename_collection" }
DbCollTools ==
    { "mcp_create_collection", "mcp_drop_collection", "mcp_get_collection_stats",
      "mcp_insert_document", "mcp_insert_many_documents", "mcp_find_documents",
      "mcp_find_one_document", "mcp_count_documents", "mcp_update_document",
      "mcp_replace_document", "mcp_delete_document", "mcp_list_indexes",
      "mcp_create_index", "mcp_create_text_index", "mcp_create_compound_index",
      "mcp_drop_index", "mcp_reindex_collection", "mcp_aggregate_documents",
      "mcp_distinct_values" }

\* The wrappers server.py defines: the tool catalog.
Catalog == NoArgTools \cup DbTools \cup DbCollTools

\* Variant of Decorated with the decorator active on every wrapper.
DecoratedAll(tool) == TRUE

\* The wrappers whose @app.tool() decorator is not commented out.
Decorated(tool) ==
    tool \in { "mcp_list_databases", "mcp_list_collections", "mcp_get_database_stats",
               "mcp_get_collection_stats", "mcp_find_documents",
               "mcp_find_one_document", "mcp_count_documents", "mcp_list_indexes",
               "mcp_aggregate_documents", "mcp_distinct_values",
               "mcp_get_server_status", "mcp_get_replica_set_status",
               "mcp_ping_database", "mcp_test_mongodb_connection",
               "mcp_get_connection_details" }

\* Importing server.py registers the decorated wrappers with the app.
RegisteredAtImport == { t \in Catalog : Decorated(t) }

\* mongo_tools, the list whose length the start-up log reports.
mongo_tools ==
    << "mcp_list_databases", "mcp_list_collections", "mcp_create_database",
       "mcp_drop_database", "mcp_get_database_stats", "mcp_create_collection",
       "mcp_drop_collection", "mcp_rename_collection", "mcp_get_collection_stats",
       "mcp_insert_document", "mcp_insert_many_documents", "mcp_find_documents",
       "mcp_find_one_document", "mcp_count_documents", "mcp_update_document",
       "mcp_replace_document", "mcp_delete_document", "mcp_list_indexes",
       "mcp_create_index", "mcp_create_text_index", "mcp_create_compound_index",
       "mcp_drop_index", "mcp_reindex_collection", "mcp_aggregate_documents",
       "mcp_distinct_values", "mcp_get_server_status", "mcp_get_replica_set_status",
       "mcp_ping_database", "mcp_test_mongodb_connection",
       "mcp_get_connection_details" >>

\* logger.info(f"Registered {len(mongo_tools)} MongoDB tools with MCP server")
ReportedAtImport == Len(mongo_tools)

NoLookup == [tool |-> "none", found |-> FALSE]

\* An argument the caller did not pass.
Absent == "<absent>"

\* Variant of RequiredArgs in which no database name is required.
RequiredArgsBug(tool) == IF tool \in DbCollTools THEN {"collection_name"} ELSE {}

\* The database and collection name parameters without a default in the
\* wrapper's signature.
RequiredArgs(tool) ==
    IF tool \in DbCollTools THEN {"database_name", "collection_name"}
    ELSE IF tool \in DbTools THEN {"database_name"}
    ELSE {}

\* The primitive of mongo_mcp.tools each wrapper of the checked requests
\* returns the result of.
PrimitiveOf(tool) ==
    CASE tool = "mcp_list_collections" -> "list_collections"
      [] tool = "mcp_drop_database" -> "drop_database"
      [] tool = "mcp_find_documents" -> "find_documents"
      [] tool = "mcp_insert_document" -> "insert_document"
      [] tool = "mcp_create_index" -> "create_index"
      [] tool = "mcp_get_server_status" -> "get_server_status"
      [] OTHER -> "none"

\* Variant of mcp_forward passing the two names in the wrong order.
mcp_forward_swapped(r) == [fn |-> PrimitiveOf(r.tool), db |-> r.coll, coll |-> r.db]

\* def mcp_x(database_name, collection_name, ...): return x(database_name,
\* collection_name, ...): the call of the primitive, arguments unchanged.
mcp_forward(r) == [fn |-> PrimitiveOf(r.tool), db |-> r.db, coll |-> r.coll]

\* Variant of mcp_body calling the primitive a second time.
mcp_body_twice(r) == << mcp_forward(r), mcp_forward(r) >>

\* The calls of primitives a wrapper's body makes, in order: one.
mcp_body(r) == << mcp_forward(r) >>

\* ------------------------------------------------------ capability gate
Classes == {"read", "write", "dangerous", "admin", "index"}

\* The operation class of each tool.
OperationClass(tool) ==
    CASE tool \in {"mcp_drop_database", "mcp_drop_collection"} -> "dangerous"
      [] tool \in {"mcp_get_server_status", "mcp_get_replica_set_status"} -> "admin"
      [] tool \in {"mcp_list_indexes", "mcp_create_index", "mcp_create_text_index",
                   "mcp_create_compound_index", "mcp_drop_index",
                   "mcp_reindex_collection"} -> "index"
      [] tool \in {"mcp_create_database", "mcp_create_collection",
                   "mcp_rename_collection", "mcp_insert_document",
                   "mcp_insert_many_documents", "mcp_update_document",
                   "mcp_replace_document", "mcp_delete_document"} -> "write"
      [] OTHER -> "read"

\* Variant of FlagValue reading the environment at every use.
FlagValueLive(name) == ReadFlag(env, name)

\* The value of a feature flag as the gate reads it: the module attribute.
FlagValue(name) == flags[name]

\* authorize(operationClass)
authorize(class) ==
    CASE class = "dangerous" -> FlagValue("dangerous")
      [] class = "admin" -> FlagValue("admin")
      [] class = "index" -> FlagValue("index")
      [] OTHER -> TRUE

\* --------------------------------------------------------- tool gateway
\* A required argument is valid when it is passed and not empty.
ValidArg(v) == v # Absent /\ v # ""

ArgOf(r, name) == IF name = "database_name" THEN r.db ELSE r.coll

ValidRequest(r) == \A a \in RequiredArgs(r.tool) : ValidArg(ArgOf(r, a))

\* Steps 1 and 2 of an invocation: validate the required arguments, then ask
\* the gate. gate counts the consultations of the gate.
Dispatch(r) ==
    IF ~ValidRequest(r) THEN [outcome |-> "ValidationError", gate |-> 0]
    ELSE IF ~authorize(OperationClass(r.tool))
    THEN [outcome |-> "CapabilityDeniedError", gate |-> 1]
    ELSE [outcome |-> "proceed", gate |-> 1]

\* The tool calls the transport delivers in the checked runs.
Req(tool, db, coll) == [tool |-> tool, db |-> db, coll |-> coll]
Requests ==
    { Req("mcp_drop_database", "test", Absent),
      Req("mcp_drop_database", "", Absent),
      Req("mcp_list_collections", Absent, Absent),
      Req("mcp_find_documents", "other", "c"),
      Req("mcp_find_documents", "test", ""),
      Req("mcp_get_server_status", Absent, Absent) }

\* The tool calls of the configuration runs: one more, of the index class.
GateRequests == Requests \cup { Req("mcp_create_index", "test", "c") }

NoRequest == Req("none", Absent, Absent)
NoCall == [fn |-> "none", db |-> Absent, coll |-> Absent]

\* ---------------------------------------------------- connection manager
NoHandle == 0

\* Variant of CanStartInit without the single-initialisation guard.
CanStartInitUnguarded(m) == m.handle = NoHandle

\* acquire() may start the one-shot initialisation: no handle yet and no
\* initialisation under way.
CanStartInit(m) == m.handle = NoHandle /\ ~m.initializing

\* Variant of HandleFor that keeps one handle per database named in the request.
HandleForPair(m, r) == IF r.db = "test" THEN m.handle ELSE m.handle + 1

\* The handle acquire() returns to a request once the handle exists: the one
\* shared handle, whatever database and collection the request names.
HandleFor(m, r) == m.handle

\* Variant of close that releases without looking at the manager's state.
close_unguarded(m) ==
    [m EXCEPT !.handle = NoHandle, !.state = "Closed",
              !.destroyed = @ + 1, !.raised = (m.handle = NoHandle)]

\* close(): releases the handle if there is one and closes the manager; a
\* call on a closed manager changes nothing. Never raises.
close(m) ==
    IF m.state = "Closed" THEN m
    ELSE [m EXCEPT !.handle = NoHandle, !.state = "Closed",
                   !.destroyed = @ + (IF m.handle # NoHandle THEN 1 ELSE 0)]

\* close_connection() as called from server.py.
close_connection ==
    /\ mgr' = close(mgr)
    /\ closeCalls' = closeCalls + 1
    /\ afterFirstClose' = IF closeCalls = 0 THEN close(mgr) ELSE afterFirstClose


\* What the driver reports when a primitive fails.
DriverMessages == {"network loss"}
ClosedMessage == "client closed"

\* The failure of a primitive as the gateway surfaces it: the kind and the
\* driver's message.
WrapError(m) == [kind |-> "DatabaseOperationError", msg |-> m]

\* ------------------------------------------------------------ tool calls
Slots == 1 .. MaxOps

IdleOp ==
    [pc |-> "idle", req |-> NoRequest, result |-> "none", msg |-> "", raised |-> "",
     h |-> NoHandle, early |-> FALSE, gate |-> 0, acq |-> 0, db |-> 0,
     todo |-> << >>, sent |-> NoCall, epoch |-> 0]

ProcessAlive == mainpc \notin {"exited", "returned"}

Finish(op, kind, m) == [op EXCEPT !.pc = "done", !.result = kind, !.msg = m]

\* The transport delivers a tool call: the arguments are validated, the gate
\* is asked, and an accepted call goes on to acquire the connection.
Arrive(o, r) ==
    /\ mainpc = "running"
    /\ ops[o].pc = "idle"
    /\ \A p \in Slots : p < o => ops[p].pc # "idle"
    /\ LET d == Dispatch(r)
           op == [IdleOp EXCEPT !.req = r, !.gate = d.gate, !.epoch = envChanges]
       IN ops' = [ops EXCEPT ![o] =
                    IF d.outcome = "proceed"
                    THEN [op EXCEPT !.pc = "acquire", !.todo = mcp_body(r)]
                    ELSE Finish(op, d.outcome, OperationClass(r.tool))]
    /\ UNCHANGED << configVars, mainVars, mgrVars >>

\* acquire(): the shared handle; the first caller initialises it and callers
\* arriving meanwhile wait for that initialisation; ConnectionError once the
\* manager is closed.
Acquire(o) ==
    /\ ProcessAlive
    /\ ops[o].pc = "acquire"
    /\ LET op == [ops[o] EXCEPT !.acq = @ + 1] IN
       IF mgr.state = "Closed"
       THEN /\ ops' = [ops EXCEPT ![o] = Finish(op, "ConnectionError", "")]
            /\ UNCHANGED mgr
       ELSE IF CanStartInit(mgr)
       THEN /\ ops' = [ops EXCEPT ![o] = [op EXCEPT !.pc = "init", !.early = TRUE]]
            /\ mgr' = [mgr EXCEPT !.initializing = TRUE]
       ELSE IF mgr.handle = NoHandle
       THEN /\ ops' = [ops EXCEPT ![o] = [op EXCEPT !.pc = "wait", !.early = TRUE]]
            /\ UNCHANGED mgr
       ELSE /\ ops' = [ops EXCEPT ![o] =
                         [op EXCEPT !.pc = "call", !.h = HandleFor(mgr, op.req)]]
            /\ UNCHANGED mgr
    /\ UNCHANGED << configVars, mainVars, closeCalls, afterFirstClose >>

\* The initialising caller constructs the handle (connected = TRUE), or the
\* connection cannot be established; nothing is constructed once closed.
Construct(o, connected) ==
    /\ ProcessAlive
    /\ ops[o].pc = "init"
    /\ IF connected /\ mgr.state # "Closed"
       THEN /\ mgr' = [mgr EXCEPT !.handle = mgr.constructed + 1,
                                  !.constructed = @ + 1,
                                  !.state = "ConnectionReady",
                                  !.initializing = FALSE]
            /\ ops' = [ops EXCEPT ![o] =
                         [@ EXCEPT !.pc = "call", !.h = mgr.constructed + 1]]
       ELSE /\ mgr' = [mgr EXCEPT !.initializing = FALSE]
            /\ ops' = [ops EXCEPT ![o] = Finish(@, "ConnectionError", "")]
    /\ UNCHANGED << configVars, mainVars, closeCalls, afterFirstClose >>

\* A caller that waited for the initialisation receives its outcome.
Wake(o) ==
    /\ ProcessAlive
    /\ ops[o].pc = "wait"
    /\ ~mgr.initializing
    /\ ops' = [ops EXCEPT ![o] =
                 IF mgr.handle # NoHandle
                 THEN [@ EXCEPT !.pc = "call", !.h = HandleFor(mgr, @.req)]
                 ELSE Finish(@, "ConnectionError", "")]
    /\ UNCHANGED << configVars, mainVars, mgrVars >>

\* What a call does after its primitive failed: it ends with the error.
AfterFailure(op, m) ==
    Finish([op EXCEPT !.raised = m], WrapError(m).kind, WrapError(m).msg)

\* The database primitive runs on the acquired handle: it succeeds, or the
\* driver fails with message m; on a handle closed meanwhile it fails.
DbCall(o, okay, m) ==
    /\ ProcessAlive
    /\ ops[o].pc = "call"
    /\ LET op == [ops[o] EXCEPT !.db = @ + 1, !.sent = Head(ops[o].todo)]
           rest == Tail(ops[o].todo)
       IN ops' = [ops EXCEPT ![o] =
                    IF op.h # mgr.handle THEN AfterFailure(op, ClosedMessage)
                    ELSE IF ~okay THEN AfterFailure(op, m)
                    ELSE IF rest = << >> THEN Finish([op EXCEPT !.todo = rest], "ok", "")
                    ELSE [op EXCEPT !.pc = "acquire", !.todo = rest]]
    /\ UNCHANGED << configVars, mainVars, mgrVars >>


\* ------------------------------------------- server.py: process lifecycle
NetworkTransports == {"sse", "streamable-http"}

\* start_server: app.run with the network transport for "sse" and
\* "streamable-http", with stdio otherwise.
ChosenTransport(setting) == IF setting \in NetworkTransports THEN setting ELSE "stdio"

\* Variant of RunArgs that runs every setting but "stdio" as a network transport.
RunArgsAnyNetwork(setting, host, port) ==
    IF setting # "stdio" THEN << setting, host, port >> ELSE << "stdio" >>

\* The arguments of start_server's app.run: transport, host and port for the
\* network transports, transport="stdio" alone otherwise.
RunArgs(setting, host, port) ==
    IF setting \in NetworkTransports THEN << setting, host, port >> ELSE << "stdio" >>

StartTransport ==
    /\ mainpc = "startup"
    /\ mainpc' = "running"
    /\ transport' = ChosenTransport(MCP_TRANSPORT)
    /\ appRun' = Append(appRun, RunArgs(MCP_TRANSPORT, MCP_HOST, MCP_PORT))
    /\ UNCHANGED << configVars, exitCode, signals, mgrVars, ops >>

\* app.run raises: the except clause of start_server is entered.
TransportRaises ==
    /\ mainpc = "running"
    /\ mainpc' = "except_close"
    /\ UNCHANGED << configVars, appRun, transport, exitCode, signals, mgrVars, ops >>

\* app.run returns: start_server returns and the script ends.
TransportReturns ==
    /\ mainpc = "running"
    /\ mainpc' = "returned"
    /\ exitCode' = 0
    /\ UNCHANGED << configVars, appRun, transport, signals, mgrVars, ops >>

\* except Exception: close_connection()
ExceptClose ==
    /\ mainpc = "except_close"
    /\ close_connection
    /\ mainpc' = "except_exit"
    /\ UNCHANGED << configVars, appRun, transport, exitCode, signals, ops >>

\* except Exception: sys.exit(1)
ExceptExit ==
    /\ mainpc = "except_exit"
    /\ mainpc' = "exited"
    /\ exitCode' = 1
    /\ UNCHANGED << configVars, appRun, transport, signals, mgrVars, ops >>

\* SIGINT or SIGTERM is delivered: the main thread enters signal_handler,
\* whose sys.exit ends whatever it interrupted.
Signal ==
    /\ ProcessAlive
    /\ signals < MaxSignals
    /\ signals' = signals + 1
    /\ mainpc' = "handler_close"
    /\ UNCHANGED << configVars, appRun, transport, exitCode, mgrVars, ops >>

\* Variant of HandlerClose that goes on to sys.exit without closing.
HandlerCloseSkipped ==
    /\ mainpc = "handler_close"
    /\ mainpc' = "handler_exit"
    /\ UNCHANGED << configVars, appRun, transport, exitCode, signals, mgrVars, ops >>

\* signal_handler: close_connection()
HandlerClose ==
    /\ mainpc = "handler_close"
    /\ close_connection
    /\ mainpc' = "handler_exit"
    /\ UNCHANGED << configVars, appRun, transport, exitCode, signals, ops >>

\* signal_handler: sys.exit(0)
HandlerExit ==
    /\ mainpc = "handler_exit"
    /\ mainpc' = "exited"
    /\ exitCode' = 0
    /\ UNCHANGED << configVars, appRun, transport, signals, mgrVars, ops >>

\* The environment is changed after the configuration was imported.
EnvChange(n, v) ==
    /\ ProcessAlive
    /\ envChanges < MaxEnvChanges
    /\ env[n] # v
    /\ env' = [env EXCEPT ![n] = v]
    /\ envChanges' = envChanges + 1
    /\ UNCHANGED << flags, MCP_TRANSPORT, auxVars, mainVars, mgrVars, ops >>

\* The transport looks a tool up by name: only registered tools are found.
\* ------------------------------------------------------------ value codec
\* Values are records [t, v]: t names the kind, v holds the content.
\* Native kinds: "identifier" (bytes), "timestamp" (calendar fields), "binary"
\* (bytes), "str" (characters), "null", "seq" (values), "map" (<<key, value>>
\* pairs in order). Transport kinds: "str", "null", "seq", "map", and "tagged",
\* the tagged form of an identifier.
Null == [t |-> "null", v |-> <<>>]
Str(chars) == [t |-> "str", v |-> chars]

HexDigits ==
    << "0", "1", "2", "3", "4", "5", "6", "7", "8", "9", "a", "b", "c", "d", "e", "f" >>

\* The canonical string form of an identifier: two hex digits per byte.
RECURSIVE Hex(_)
Hex(bytes) ==
    IF bytes = <<>> THEN <<>>
    ELSE << HexDigits[(bytes[1] \div 16) + 1], HexDigits[(bytes[1] % 16) + 1] >>
         \o Hex(Tail(bytes))

HexValue(c) == CHOOSE i \in 0 .. 15 : HexDigits[i + 1] = c

\* The bytes a string of hex digits denotes.
RECURSIVE Unhex(_)
Unhex(chars) ==
    IF Len(chars) < 2 THEN <<>>
    ELSE << 16 * HexValue(chars[1]) + HexValue(chars[2]) >>
         \o Unhex(SubSeq(chars, 3, Len(chars)))

DecimalDigits == << "0", "1", "2", "3", "4", "5", "6", "7", "8", "9" >>

\* n in decimal, zero-padded to `width` digits.
RECURSIVE Pad(_, _)
Pad(n, width) ==
    IF width = 0 THEN <<>>
    ELSE Pad(n \div 10, width - 1) \o << DecimalDigits[(n % 10) + 1] >>

\* The ISO-8601 form of a timestamp: YYYY-MM-DDTHH:MM:SS.
IsoFormat(ts) ==
    Pad(ts.y, 4) \o <<"-">> \o Pad(ts.mo, 2) \o <<"-">> \o Pad(ts.d, 2) \o <<"T">>
    \o Pad(ts.h, 2) \o <<":">> \o Pad(ts.mi, 2) \o <<":">> \o Pad(ts.s, 2)

Base64Alphabet ==
    << "A", "B", "C", "D", "E", "F", "G", "H", "I", "J", "K", "L", "M", "N", "O", "P",
       "Q", "R", "S", "T", "U", "V", "W", "X", "Y", "Z", "a", "b", "c", "d", "e", "f",
       "g", "h", "i", "j", "k", "l", "m", "n", "o", "p", "q", "r", "s", "t", "u", "v",
       "w", "x", "y", "z", "0", "1", "2", "3", "4", "5", "6", "7", "8", "9", "+", "/" >>

\* The base64 form of a byte string: four characters per three bytes, the
\* last group padded with "=".
RECURSIVE Base64(_)
Base64(bytes) ==
    LET sym(n) == Base64Alphabet[n + 1]
        b1 == bytes[1]
        b2 == IF Len(bytes) >= 2 THEN bytes[2] ELSE 0
        b3 == IF Len(bytes) >= 3 THEN bytes[3] ELSE 0
    IN IF bytes = <<>> THEN <<>>
       ELSE << sym(b1 \div 4),
               sym((b1 % 4) * 16 + (b2 \div 16)),
               IF Len(bytes) >= 2 THEN sym((b2 % 16) * 4 + (b3 \div 64)) ELSE "=",
               IF Len(bytes) >= 3 THEN sym(b3 % 64) ELSE "=" >>
            \o (IF Len(bytes) > 3 THEN Base64(SubSeq(bytes, 4, Len(bytes))) ELSE <<>>)

\* encode(nativeValue): an identifier becomes its canonical string form,
\* tagged; a timestamp becomes an ISO-8601 string; binary data becomes a
\* base64 string; sequences and mappings are encoded member by member, and
\* every other value passes through unchanged.
RECURSIVE encode(_)
encode(x) ==
    CASE x.t = "identifier" -> [t |-> "tagged", v |-> Hex(x.v)]
      [] x.t = "timestamp" -> Str(IsoFormat(x.v))
      [] x.t = "binary" -> Str(Base64(x.v))
      [] x.t = "seq" -> [t |-> "seq", v |-> [i \in DOMAIN x.v |-> encode(x.v[i])]]
      [] x.t = "map" ->
           [t |-> "map", v |-> [i \in DOMAIN x.v |-> << x.v[i][1], encode(x.v[i][2]) >>]]
      [] OTHER -> x

\* decode(transportValue): the inverse for the tagged forms; sequences and
\* mappings are decoded member by member, and every other value passes
\* through unchanged.
RECURSIVE decode(_)
decode(x) ==
    CASE x.t = "tagged" -> [t |-> "identifier", v |-> Unhex(x.v)]
      [] x.t = "seq" -> [t |-> "seq", v |-> [i \in DOMAIN x.v |-> decode(x.v[i])]]
      [] x.t = "map" ->
           [t |-> "map", v |-> [i \in DOMAIN x.v |-> << x.v[i][1], decode(x.v[i][2]) >>]]
      [] OTHER -> x

\* Equality of two values, kind first.
RECURSIVE Same(_, _)
Same(a, b) ==
    /\ a.t = b.t
    /\ CASE a.t = "seq" ->
              /\ Len(a.v) = Len(b.v)
              /\ \A i \in DOMAIN a.v : Same(a.v[i], b.v[i])
         [] a.t = "map" ->
              /\ Len(a.v) = Len(b.v)
              /\ \A i \in DOMAIN a.v :
                    a.v[i][1] = b.v[i][1] /\ Same(a.v[i][2], b.v[i][2])
         [] OTHER -> a.v = b.v

\* The native values of the checked runs: identifiers, timestamps, binary
\* data and plain strings, alone, in sequences and in string-keyed mappings.
Identifiers == { [t |-> "identifier", v |-> b] : b \in { <<0, 77>>, <<255, 16>> } }
Timestamps ==
    { [t |-> "timestamp", v |-> ts] :
        ts \in { [y |-> 2024, mo |-> 1, d |-> 5, h |-> 3, mi |-> 4, s |-> 5],
                 [y |-> 1999, mo |-> 12, d |-> 31, h |-> 23, mi |-> 59, s |-> 59] } }
Binaries == { [t |-> "binary", v |-> b] : b \in { <<>>, <<77>>, <<0, 255>>, <<77, 97, 110, 33>> } }
Strings == { Str(<<"0", "0", "4", "d">>), Str(<<"T", "Q", "=", "=">>) }
Leaves == Identifiers \cup Timestamps \cup Binaries \cup Strings
SeqsOf(S) == { [t |-> "seq", v |-> q] : q \in { <<>> } \cup { <<a>> : a \in S } }
MapsOf(S) == { [t |-> "map", v |-> << <<"_id", a>> >>] : a \in S }
Values ==
    Leaves \cup SeqsOf(Leaves) \cup MapsOf(Leaves \cup SeqsOf(Leaves))
    \cup { [t |-> "seq", v |-> <<a, m>>] : a \in Identifiers, m \in MapsOf(Timestamps) }

\* The codec encodes the value it was handed.
Encode ==
    /\ codecpc = "native"
    /\ encoded' = encode(value)
    /\ codecpc' = "encoded"
    /\ UNCHANGED << env, flags, envChanges, MCP_TRANSPORT, registered, reported, lookup,
                    findVars, value, decoded, bindVars, mainVars, mgrVars, ops >>

\* The codec decodes the transport form back.
Decode ==
    /\ codecpc = "encoded"
    /\ decoded' = decode(encoded)
    /\ codecpc' = "decoded"
    /\ UNCHANGED << env, flags, envChanges, MCP_TRANSPORT, registered, reported, lookup,
                    findVars, value, encoded, bindVars, mainVars, mgrVars, ops >>

\* The limit mcp_find_documents passes on: the caller's, 0 when it gives none.
mcp_find_documents_limit(given) == IF given = <<>> THEN 0 ELSE given[1]

Min(a, b) == IF a <= b THEN a ELSE b

\* The number of documents find_documents returns of `matching` matching ones:
\* with limit 0, all of them up to the configured maximum document limit; with
\* a positive limit, at most that many.
find_documents(matching, limit, maximum) ==
    IF limit = 0 THEN Min(matching, maximum) ELSE Min(matching, limit)

\* Numbers of matching documents and limit arguments of the checked calls.
MatchingCounts == (0 .. 8) \cup (998 .. 1002) \cup (1999 .. 2001)
LimitArgs == { <<>>, <<0>>, <<3>> }

\* A call of mcp_find_documents once the transport runs: the transport is only
\* started when config.py imported without error.
FindDocuments(given, matching) ==
    /\ mainpc = "running"
    /\ MONGODB_MAX_DOCUMENTS_LIMIT.ok
    /\ LET limit == mcp_find_documents_limit(given) IN
       found' = [called |-> TRUE, limit |-> limit, matching |-> matching,
                 returned |-> find_documents(matching, limit,
                                             MONGODB_MAX_DOCUMENTS_LIMIT.val)]
    /\ UNCHANGED << env, flags, envChanges, MCP_TRANSPORT, registered, reported, lookup,
                    maxDocsEnv, MONGODB_MAX_DOCUMENTS_LIMIT, codecVars, bindVars,
                    mainVars, mgrVars, ops >>

CallTool(name) ==
    /\ mainpc = "running"
    /\ lookup' = [tool |-> name, found |-> name \in registered]
    /\ UNCHANGED << env, flags, envChanges, MCP_TRANSPORT, registered, reported, findVars, codecVars, bindVars,
                    mainVars, mgrVars, ops >>

\* ------------------------------------------------------- specifications
InitManager ==
    [handle |-> NoHandle, state |-> "Uninitialized", initializing |-> FALSE,
     constructed |-> 0, destroyed |-> 0, raised |-> FALSE]

\* No find-documents call was made yet.
NoFind == [called |-> FALSE, limit |-> 0, matching |-> 0, returned |-> 0]

\* The state once config.py and server.py are imported, under environment e,
\* transport setting t, maximum-documents setting d, host setting hs and port
\* setting ps, with x the value the codec is handed.
InitFull(e, t, d, x, hs, ps) ==
    /\ env = e
    /\ flags = ReadFlags(e)
    /\ envChanges = 0
    /\ MCP_TRANSPORT = t
    /\ mainpc = "startup"
    /\ transport = "none"
    /\ exitCode = -1
    /\ signals = 0
    /\ mgr = InitManager
    /\ closeCalls = 0
    /\ afterFirstClose = InitManager
    /\ ops = [o \in Slots |-> IdleOp]
    /\ registered = RegisteredAtImport
    /\ reported = ReportedAtImport
    /\ lookup = NoLookup
    /\ maxDocsEnv = d
    /\ MONGODB_MAX_DOCUMENTS_LIMIT = ReadMaxDocuments(d)
    /\ found = NoFind
    /\ value = x
    /\ encoded = Null
    /\ decoded = Null
    /\ codecpc = "native"
    /\ MCP_HOST = ReadHost(hs)
    /\ MCP_PORT = ReadPort(ps)
    /\ appRun = <<>>

\* The same with MCP_HOST and MCP_PORT left unset.
InitState(e, t, d, x) == InitFull(e, t, d, x, Unset, Unset)

\* The same with no value for the codec.
InitEnv(e, t, d) == InitState(e, t, d, Null)

\* The same with MONGODB_MAX_DOCUMENTS_LIMIT left unset.
InitWith(e, t) == InitEnv(e, t, Unset)

\* Environments of the lifecycle runs: no overrides, and every flag overridden.
AllUnset == [n \in FlagNames |-> Unset]
AllFlipped ==
    [n \in FlagNames |->
        IF n = "dangerous" THEN SetTo(<<"T", "r", "u", "e">>) ELSE SetTo(SFalse)]

Init == \E e \in {AllUnset, AllFlipped} : InitWith(e, DefaultTransport)

OpStep ==
    \E o \in Slots :
        \/ \E r \in Requests : Arrive(o, r)
        \/ Acquire(o)
        \/ \E c \in BOOLEAN : Construct(o, c)
        \/ Wake(o)
        \/ \E okay \in BOOLEAN, m \in DriverMessages : DbCall(o, okay, m)

Next ==
    \/ StartTransport
    \/ TransportRaises
    \/ TransportReturns
    \/ ExceptClose
    \/ ExceptExit
    \/ Signal
    \/ HandlerClose
    \/ HandlerExit
    \/ OpStep

Spec == Init /\ [][Next]_vars

\* The configuration runs: every checked environment and transport setting,
\* the environment changing under a running server that takes a tool call.
InitConfig ==
    \E e \in [FlagNames -> EnvValues], t \in TransportSettings : InitWith(e, t)

NextConfig ==
    \/ StartTransport
    \/ \E n \in FlagNames, v \in EnvValues : EnvChange(n, v)
    \/ \E r \in GateRequests : Arrive(1, r)

SpecConfig == InitConfig /\ [][NextConfig]_vars

\* The registry runs: every checked configuration, the transport looking up
\* every name of the catalog.
\* Runs of find-documents calls under every maximum-documents setting.
InitFind == \E d \in MaxDocumentsValues : InitEnv(AllUnset, DefaultTransport, d)

NextFind ==
    \/ MONGODB_MAX_DOCUMENTS_LIMIT.ok /\ StartTransport
    \/ \E given \in LimitArgs, matching \in MatchingCounts : FindDocuments(given, matching)

SpecFind == InitFind /\ [][NextFind]_vars

\* Runs of the value codec on every value of Values.
InitCodec == \E x \in Values : InitState(AllUnset, DefaultTransport, Unset, x)

NextCodec == Encode \/ Decode

SpecCodec == InitCodec /\ [][NextCodec]_vars

\* Runs of the server's lifecycle under every transport, host and port
\* setting, with one tool call at a time.
ServerSettings == TransportSettings \cup {"SSE", ""}
StatusRequest == Req("mcp_get_server_status", Absent, Absent)

InitServer ==
    \E t \in ServerSettings, hs \in HostValues, ps \in PortValues :
        InitFull(AllUnset, t, Unset, Null, hs, ps)

NextServer ==
    \/ StartTransport
    \/ TransportRaises
    \/ TransportReturns
    \/ ExceptClose
    \/ ExceptExit
    \/ Signal
    \/ HandlerClose
    \/ HandlerExit
    \/ Arrive(1, StatusRequest)
    \/ Acquire(1)
    \/ \E c \in BOOLEAN : Construct(1, c)
    \/ \E okay \in BOOLEAN, m \in DriverMessages : DbCall(1, okay, m)

SpecServer == InitServer /\ [][NextServer]_vars

NextRegistry ==
    \/ StartTransport
    \/ \E name \in Catalog : CallTool(name)

SpecRegistry == InitConfig /\ [][NextRegistry]_vars


\* ================================================================ claims
InFlight(o) == ops[o].pc \in {"acquire", "init", "wait", "call"}

\* C1: however the first acquire() calls interleave, at most one handle is
\* constructed, exactly one once any caller holds a handle, and all callers
\* that received a handle received the same one.
C1_SingleInitialization ==
    /\ mgr.constructed <= 1
    /\ \A o \in Slots : ops[o].h # NoHandle => mgr.constructed = 1
    /\ \A o, p \in Slots :
          (ops[o].h # NoHandle /\ ops[p].h # NoHandle) => ops[o].h = ops[p].h

\* Every caller called acquire() while no handle existed, and every one of
\* them holds the one handle.
C1_Witness ==
    /\ mgr.constructed = 1
    /\ \A o \in Slots : ops[o].early /\ ops[o].h = mgr.handle /\ ops[o].h # NoHandle

\* C2: close() never raises, and a close() after the first leaves the
\* connection manager exactly as it was.
C2_CloseIdempotent ==
    [][(closeCalls' = closeCalls + 1) =>
          (~mgr'.raised /\ (closeCalls >= 1 => mgr' = mgr))]_vars

\* close() was called at least twice on a manager whose handle it released.
C2_Witness == closeCalls >= 2 /\ mgr.constructed = 1 /\ mgr.destroyed = 1

\* Shutdown has begun: the signal handler or the except clause of
\* start_server was entered, or the manager is closed.
ShutdownBegun ==
    \/ mainpc \in {"handler_close", "handler_exit", "except_close", "except_exit",
                   "exited"}
    \/ mgr.state = "Closed"

\* C3: once shutdown has begun a call that has not yet called acquire() fails
\* with ConnectionError, no handle is constructed, and Closed is never left.
C3_NoOperationAfterShutdown ==
    [][ShutdownBegun =>
          /\ mgr'.constructed = mgr.constructed
          /\ (mgr.state = "Closed" => mgr'.state = "Closed")
          /\ \A o \in Slots :
                (ops[o].pc = "acquire" /\ ops'[o] # ops[o])
                    => ops'[o].result = "ConnectionError"]_vars

\* C4: when the process has exited through the signal handler or the except
\* clause, close() was called and has completed; the exits themselves are
\* enabled whatever the tool calls in flight are doing.
C4_CloseBeforeExit ==
    /\ mainpc = "exited" =>
          (closeCalls >= 1 /\ mgr.state = "Closed" /\ mgr.handle = NoHandle)
    /\ mainpc = "handler_exit" => ENABLED HandlerExit
    /\ mainpc = "except_exit" => ENABLED ExceptExit

\* The process has exited after a signal while a tool call was in flight.
C4_Witness ==
    /\ mainpc = "exited"
    /\ signals >= 1
    /\ \E o \in Slots : InFlight(o)

\* C5: when the process has ended, a handle that was constructed was
\* destroyed exactly once.
C5_DestroyedExactlyOnce ==
    (~ProcessAlive /\ mgr.constructed >= 1) => mgr.destroyed = 1


\* The class of a request's tool is switched off by the flags as imported.
ClassDisallowed(r) ==
    \/ OperationClass(r.tool) = "dangerous" /\ ~flags["dangerous"]
    \/ OperationClass(r.tool) = "admin" /\ ~flags["admin"]
    \/ OperationClass(r.tool) = "index" /\ ~flags["index"]

\* A required database or collection name of the request is missing or empty.
NameMissing(r) ==
    \/ r.tool \in DbTools \cup DbCollTools /\ r.db \in {Absent, ""}
    \/ r.tool \in DbCollTools /\ r.coll \in {Absent, ""}

DropTest == Req("mcp_drop_database", "test", Absent)

\* C6: read and write are allowed under every flag setting; dangerous, admin
\* and index are allowed exactly when their flag is set; and a configuration
\* imported with no overrides has dangerous off, admin on, index on.
C6_AuthorizePolicy ==
    /\ authorize("read")
    /\ authorize("write")
    /\ authorize("dangerous") <=> flags["dangerous"]
    /\ authorize("admin") <=> flags["admin"]
    /\ authorize("index") <=> flags["index"]
    /\ (envChanges = 0 /\ env = AllUnset) =>
          (~flags["dangerous"] /\ flags["admin"] /\ flags["index"])

\* Under the default configuration the gate has refused a dangerous call.
C6_Witness ==
    /\ envChanges = 0
    /\ env = AllUnset
    /\ ops[1].req = DropTest
    /\ ops[1].result = "CapabilityDeniedError"

C8_ValidationFirst ==
    \A o \in Slots :
        (ops[o].pc # "idle" /\ NameMissing(ops[o].req))
            => /\ ops[o].pc = "done"
               /\ ops[o].result = "ValidationError"
               /\ ops[o].gate = 0
               /\ ops[o].acq = 0 /\ ops[o].h = NoHandle
               /\ ops[o].db = 0 /\ ops[o].sent = NoCall

\* A drop-database with an empty name failed validation although the gate
\* would have denied it.
C8_Witness ==
    \E o \in Slots :
        /\ ops[o].req = Req("mcp_drop_database", "", Absent)
        /\ ~flags["dangerous"]
        /\ ops[o].result = "ValidationError"

\* C9: a tool call calls the database primitive at most once: exactly once
\* when it succeeds, exactly once when the primitive fails, and then it ends
\* with DatabaseOperationError carrying the driver's message; never when it
\* ends with another error.
C9_AtMostOnce ==
    \A o \in Slots :
        /\ ops[o].db <= 1
        /\ ops[o].result = "ok" => ops[o].db = 1
        /\ ops[o].result = "DatabaseOperationError"
              => /\ ops[o].db = 1
                 /\ ops[o].msg = ops[o].raised
                 /\ ops[o].raised \in DriverMessages \cup {ClosedMessage}
        /\ ops[o].result \in {"ValidationError", "CapabilityDeniedError",
                              "ConnectionError"} => ops[o].db = 0
        /\ (ops[o].pc = "done" /\ ops[o].db = 1)
              => ops[o].result \in {"ok", "DatabaseOperationError"}

\* A call ended with DatabaseOperationError after the driver failed.
C9_Witness ==
    \E o \in Slots :
        /\ ops[o].result = "DatabaseOperationError"
        /\ ops[o].msg \in DriverMessages
        /\ ops[o].db = 1

\* C10: no step changes the flags, nor what authorize answers for any class.
C10_FlagsImmutable ==
    [][/\ flags' = flags
       /\ \A c \in Classes : authorize(c)' = authorize(c)]_vars

\* The environment now gives the dangerous flag another value than the one
\* imported, and a drop-database call arrived after the change.
C10_Witness ==
    /\ envChanges >= 1
    /\ ReadFlag(env, "dangerous") # flags["dangerous"]
    /\ ops[1].req = DropTest
    /\ ops[1].epoch >= 1


\* The tools that create, drop or rename a database or collection, insert,
\* update, replace or delete documents, or create, drop or rebuild an index.
\* C12: while a handle is live, an acquire() returns that handle whatever
\* database/collection pair its request names and constructs nothing; a handle
\* is constructed only when none was constructed before or after a close().
C12_OneHandleForAllPairs ==
    [][/\ \A o \in Slots :
            (ops'[o].h # ops[o].h /\ ops'[o].h # NoHandle) => ops'[o].h = mgr'.handle
       /\ mgr.handle # NoHandle => mgr'.constructed = mgr.constructed
       /\ mgr'.constructed > mgr.constructed =>
            (mgr.constructed = 0 \/ closeCalls >= 1)]_vars

\* Two requests naming different databases hold the live handle, one of them
\* acquired after the handle existed, and one handle was constructed.
C12_Witness ==
    \E o, p \in Slots :
        /\ ops[o].req.db # ops[p].req.db
        /\ mgr.handle # NoHandle
        /\ ops[o].h = mgr.handle /\ ops[p].h = mgr.handle
        /\ ops[o].pc = "call" /\ ops[p].pc = "call"
        /\ ~ops[p].early
        /\ mgr.constructed = 1

C14_RoundTrip ==
    /\ codecpc = "decoded" => Same(decoded, value)
    /\ (codecpc # "native" /\ value \in Identifiers) =>
          ~Same(encoded, encode(Str(Hex(value.v))))

\* C15: start_server calls app.run once: with the setting, host and port as
\* configured when the setting is "sse" or "streamable-http", with stdio for
\* every other setting. A process that exited without a signal did so from
\* the except clause, with the connection closed and status 1; one that
\* exited after a termination signal did so with status 0.
C15_TransportAndExit ==
    /\ Len(appRun) <= 1
    /\ (transport # "none") = (Len(appRun) = 1)
    /\ mainpc \in {"running", "except_close", "except_exit", "returned"} => Len(appRun) = 1
    /\ Len(appRun) = 1 =>
          /\ MCP_TRANSPORT \in {"sse", "streamable-http"} =>
                /\ appRun[1] = << MCP_TRANSPORT, MCP_HOST, MCP_PORT >>
                /\ transport = MCP_TRANSPORT
          /\ MCP_TRANSPORT \notin {"sse", "streamable-http"} =>
                /\ appRun[1] = << "stdio" >>
                /\ transport = "stdio"
    /\ (mainpc = "exited" /\ signals = 0) =>
          /\ exitCode = 1
          /\ closeCalls >= 1 /\ mgr.state = "Closed" /\ mgr.handle = NoHandle
    /\ (mainpc = "exited" /\ signals > 0) => exitCode = 0
    /\ mainpc = "except_exit" => closeCalls >= 1 /\ mgr.state = "Closed"

\* An unrecognised setting ran stdio, app.run raised while a handle was live,
\* and the process exited with status 1 and the handle released.
C15_Witness ==
    /\ MCP_TRANSPORT = "http"
    /\ appRun = << << "stdio" >> >>
    /\ mainpc = "exited" /\ signals = 0 /\ exitCode = 1
    /\ mgr.constructed = 1 /\ mgr.destroyed = 1

MutatingTools ==
    { "mcp_create_database", "mcp_drop_database", "mcp_create_collection",
      "mcp_drop_collection", "mcp_rename_collection", "mcp_insert_document",
      "mcp_insert_many_documents", "mcp_update_document", "mcp_replace_document",
      "mcp_delete_document", "mcp_create_index", "mcp_create_text_index",
      "mcp_create_compound_index", "mcp_drop_index", "mcp_reindex_collection" }

\* C11: every tool of the catalog is registered, a lookup of a catalog name
\* finds it, and the number the start-up log reports is the number of tools
\* registered.
C11_FullCatalogExposed ==
    /\ \A t \in Catalog : t \in registered
    /\ lookup.tool \in Catalog => lookup.found
    /\ reported = Cardinality(registered)

====
